---- MODULE Spec2Model ----
(***************************************************************************)
(* Model of automation/DataAggregator/BaseAggregator.py: the BaseListener  *)
(* (listener process) and the BaseAggregator (manager process) and the     *)
(* three multiprocess queues that connect them.                            *)
(*                                                                         *)
(* Python values are modelled as follows.  None is the empty tuple <<>>.   *)
(* A value travelling on status_queue is a tagged pair: <<"addr", a>> for  *)
(* the socket name put by startup, <<"int", n>> for a qsize() sample.      *)
(* The `data` dict of a record is a TLA+ record whose DOMAIN is the set of *)
(* keys present, so data['visit_id'] raising KeyError is "visit_id" not    *)
(* being in DOMAIN data.  The dict browser_map is the sequence of its      *)
(* <<key, value>> items in insertion order (the order .values() iterates). *)
(*                                                                         *)
(* The two processes run concurrently; each is sequential.  A handler is   *)
(* cut into several actions only where it touches a queue the other        *)
(* process reads, or where it blocks.                                      *)
(***************************************************************************)
EXTENDS Integers, Sequences, FiniteSets, TLC

VARIABLES
    \* ---- the three channels (BaseAggregator.__init__, lines 188-190)
    status_queue,           \* Listener -> Aggregator
    completion_queue,       \* Listener -> Aggregator
    shutdown_queue,         \* Aggregator -> Listener
    \* ---- BaseListener
    lstate,                 \* "NOPROC" | "INIT" | "RUNNING" | "TERMINATED" | "CRASHED"
    lpc,                    \* position inside update_records
    browser_map,            \* self.browser_map: sequence of <<crawl_id, visit_id>>
    last_update,            \* self._last_update
    sock_open,              \* self.sock is accepting
    l_error,                \* exception that ended the listener, "" if none
    \* ---- BaseAggregator
    apc,                    \* position of the manager thread
    listener_address,       \* self.listener_address
    listener_process,       \* self.listener_process
    last_status,            \* self._last_status
    last_status_received,   \* self._last_status_received
    finished_visit_ids,     \* local list of get_saved_visit_ids
    deadline,               \* when the pending blocking call gives up
    \* ---- time
    now,                    \* time.time()
    ticks,                  \* number of clock advances so far
    \* ---- history (not program state)
    cur_rec,                \* data of the latest update_records call
    emitted,                \* every value ever put on completion_queue
    shutdown_emitted,       \* those put by BaseListener.shutdown
    visit_done_calls,       \* completed visit_done calls: <<visit_id, is_shutdown>>
    assigned,               \* every <<crawl_id, visit_id>> ever written to browser_map
    status_hist,            \* every value ever put on status_queue
    shutdown_hist,          \* every value ever put on shutdown_queue
    returned,               \* concatenation of the lists get_saved_visit_ids returned
    a_result,               \* the latest Aggregator call and its outcome
    shutdown_seen,          \* number of should_shutdown calls that returned True
    ss_ret,                 \* what the latest should_shutdown call returned
    status_times,           \* the clock at each qsize sample put on status_queue
    \* ---- the record queue of the socket (self.record_queue) and drain_queue
    record_queue,           \* records delivered and not yet taken: <<table, n>>
    producing,              \* the transport may still deliver records
    dpc,                    \* position inside drain_queue
    processed,              \* handler calls made: <<handler, record>>
    delivered               \* every record ever put on record_queue

vars == <<status_queue, completion_queue, shutdown_queue, lstate, lpc, browser_map,
          last_update, sock_open, l_error, apc, listener_address, listener_process,
          last_status, last_status_received, finished_visit_ids, deadline, now, ticks,
          cur_rec, emitted, shutdown_emitted, visit_done_calls, assigned,
          status_hist, shutdown_hist, returned, a_result,
          shutdown_seen, ss_ret, status_times,
          record_queue, producing, dpc, processed, delivered>>

listenerVisitVars == <<lpc, browser_map, cur_rec, emitted, visit_done_calls, assigned>>
listenerVars == <<lstate, lpc, browser_map, last_update, sock_open, l_error,
                  cur_rec, emitted, shutdown_emitted, visit_done_calls, assigned>>
aggregatorVars == <<apc, listener_address, listener_process, last_status,
                    last_status_received, finished_visit_ids, deadline,
                    returned, a_result>>
timeVars == <<now, ticks>>
probeVars == <<shutdown_seen, ss_ret, status_times>>
drainVars == <<record_queue, producing, dpc, processed, delivered>>

\* ------------------------------------------------------------------ bounds
\* visit_ids a record may carry; completion signals update_records may put;
\* record_queue sizes a sample may report; clock advances; shutdown() calls
NumVisits == 3
MaxEmit == 2
MaxQSize == 1
MaxTicks == 2
MaxShutdowns == 2
\* records the transport delivers to record_queue
MaxRecords == 3

\* ------------------------------------------------------- program constants
STATUS_TIMEOUT == 120
STATUS_UPDATE_INTERVAL == 5
JOIN_TIMEOUT == 300
SHUTDOWN_SIGNAL == "SHUTDOWN"
RECORD_TYPE_CONTENT == "page_content"

\* ------------------------------------------------------------ Python values
None == <<>>
Some(x) == <<x>>
Addr == <<"addr", 0>>
Sample(n) == <<"int", n>>
IsInt(v) == Len(v) = 2 /\ v[1] = "int"

\* two browsers: the least that lets records of different crawl_ids interleave
Crawls == {1, 2}
Visits == 1..NumVisits

\* the `data` dicts a record may carry: both keys, one of them, or neither
Records ==
    {[visit_id |-> v, crawl_id |-> c] : v \in Visits, c \in Crawls}
        \cup {[visit_id |-> v] : v \in Visits}
        \cup {[crawl_id |-> c] : c \in Crawls}
        \cup {<<>>}

HasKey(data, k) == k \in DOMAIN data

\* ------------------------------------------------------------ dict helpers
RECURSIVE DictIndex(_, _)
DictIndex(d, k) ==
    IF d = <<>> THEN 0
    ELSE IF d[Len(d)][1] = k THEN Len(d)
    ELSE DictIndex(SubSeq(d, 1, Len(d) - 1), k)

DictHas(d, k) == DictIndex(d, k) # 0
DictGet(d, k) == d[DictIndex(d, k)][2]
DictSet(d, k, v) ==
    IF DictHas(d, k) THEN [d EXCEPT ![DictIndex(d, k)] = <<k, v>>]
    ELSE Append(d, <<k, v>>)
DictValues(d) == [i \in 1..Len(d) |-> d[i][2]]

\* ------------------------------------------------------------ seq helpers
Range(s) == {s[i] : i \in 1..Len(s)}
Count(x, s) == Cardinality({i \in 1..Len(s) : s[i] = x})


\* ------------------------------------------------------------------- Init
\* BaseAggregator.__init__ has run; no listener process exists yet.
Init ==
    /\ status_queue = <<>>
    /\ completion_queue = <<>>
    /\ shutdown_queue = <<>>
    /\ lstate = "NOPROC"
    /\ lpc = "idle"
    /\ browser_map = <<>>
    /\ last_update = 0
    /\ sock_open = FALSE
    /\ l_error = ""
    /\ apc = "idle"
    /\ listener_address = None
    /\ listener_process = None
    /\ last_status = None
    /\ last_status_received = None
    /\ finished_visit_ids = <<>>
    /\ deadline = 0
    /\ now = 0
    /\ ticks = 0
    /\ cur_rec = <<>>
    /\ emitted = <<>>
    /\ shutdown_emitted = <<>>
    /\ visit_done_calls = <<>>
    /\ assigned = <<>>
    /\ status_hist = <<>>
    /\ shutdown_hist = <<>>
    /\ returned = <<>>
    /\ a_result = None
    /\ shutdown_seen = 0
    /\ ss_ret = None
    /\ status_times = <<>>
    /\ record_queue = <<>>
    /\ producing = TRUE
    /\ dpc = "idle"
    /\ processed = <<>>
    /\ delivered = <<>>

\* ============================================================ BaseListener

\* a mark_visit_id_done that puts its visit_id twice
MarkVisitIdDoneTwice(q, visit_id) == Append(Append(q, visit_id), visit_id)

\* mark_visit_id_done(visit_id): completion_queue.put(visit_id)
MarkVisitIdDone(q, visit_id) == Append(q, visit_id)

\* the parameters mark_visit_id_done declares (line 146) ...
MarkVisitIdDoneParams == {"visit_id"}
\* ... and the arguments BaseListener.shutdown passes to it (line 159)
ShutdownCallArgs == {"visit_id", "is_shutdown"}
\* a Python call binds only when every argument passed names a parameter
CallBinds(args, params) == args \subseteq params

\* lines 125-137: either KeyError logs and returns
DropsRecord(data) == ~HasKey(data, "visit_id") \/ ~HasKey(data, "crawl_id")

\* an update_records without the except clauses: the KeyError propagates
DropOutcomeRaises(data) == "KeyError"

\* lines 127-130 and 134-137: the KeyError is caught, logged, and the method
\* returns; no exception leaves update_records
DropOutcome(data) == ""

\* an update_records that takes every record of a known browser for a new visit
VisitChangedAlways(bm, crawl_id, visit_id) == DictHas(bm, crawl_id)

\* line 141: the browser is known and has moved on to another visit
VisitChanged(bm, crawl_id, visit_id) ==
    DictHas(bm, crawl_id) /\ DictGet(bm, crawl_id) # visit_id

\* an update_records that finalizes the visit of the record it just received
FinalizedVisitNew(bm, crawl_id, visit_id) == visit_id

\* line 142: the visit handed to mark_visit_id_done and visit_done
FinalizedVisit(bm, crawl_id, visit_id) == DictGet(bm, crawl_id)

\* startup (lines 88-95): the socket is bound, its name is put on status_queue
StartupPut(q) == Append(q, Addr)

Startup ==
    /\ lstate = "INIT"
    /\ status_queue' = StartupPut(status_queue)
    /\ status_hist' = StartupPut(status_hist)
    /\ sock_open' = TRUE
    /\ lstate' = "RUNNING"
    /\ UNCHANGED <<completion_queue, shutdown_queue, last_update, l_error,
                   shutdown_emitted, shutdown_hist>>
    /\ UNCHANGED listenerVisitVars
    /\ UNCHANGED aggregatorVars
    /\ UNCHANGED timeVars
    /\ UNCHANGED probeVars
    /\ UNCHANGED drainVars

\* update_records (lines 118-144), up to and including line 142
UpdateRecords(data) ==
    /\ lstate = "RUNNING"
    /\ lpc = "idle"
    /\ Len(emitted) < MaxEmit
    /\ cur_rec' = data
    /\ IF DropsRecord(data)
       THEN /\ l_error' = DropOutcome(data)
            /\ lstate' = IF l_error' = "" THEN lstate ELSE "CRASHED"
            /\ UNCHANGED <<browser_map, assigned, completion_queue, emitted, lpc>>
       ELSE IF ~DictHas(browser_map, data.crawl_id)
       THEN /\ browser_map' = DictSet(browser_map, data.crawl_id, data.visit_id)
            /\ assigned' = Append(assigned, <<data.crawl_id, data.visit_id>>)
            /\ UNCHANGED <<completion_queue, emitted, lpc, lstate, l_error>>
       ELSE IF VisitChanged(browser_map, data.crawl_id, data.visit_id)
       THEN /\ completion_queue' =
                MarkVisitIdDone(completion_queue,
                                FinalizedVisit(browser_map, data.crawl_id, data.visit_id))
            /\ emitted' =
                MarkVisitIdDone(emitted,
                                FinalizedVisit(browser_map, data.crawl_id, data.visit_id))
            /\ lpc' = "marked"
            /\ UNCHANGED <<browser_map, assigned, lstate, l_error>>
       ELSE UNCHANGED <<browser_map, assigned, completion_queue, emitted, lpc,
                        lstate, l_error>>
    /\ UNCHANGED <<status_queue, shutdown_queue, last_update, sock_open,
                   shutdown_emitted, visit_done_calls, status_hist, shutdown_hist>>
    /\ UNCHANGED aggregatorVars
    /\ UNCHANGED timeVars
    /\ UNCHANGED probeVars
    /\ UNCHANGED drainVars

\* update_records, line 143: the backend hook visit_done(browser_map[crawl_id])
UpdateRecordsVisitDone ==
    /\ lpc = "marked"
    /\ visit_done_calls' =
           Append(visit_done_calls,
                  <<FinalizedVisit(browser_map, cur_rec.crawl_id, cur_rec.visit_id), FALSE>>)
    /\ lpc' = "visit_done"
    /\ UNCHANGED <<status_queue, completion_queue, shutdown_queue, lstate, browser_map,
                   last_update, sock_open, l_error, cur_rec, emitted,
                   shutdown_emitted, assigned, status_hist, shutdown_hist>>
    /\ UNCHANGED aggregatorVars
    /\ UNCHANGED timeVars
    /\ UNCHANGED probeVars
    /\ UNCHANGED drainVars

\* update_records, line 144: browser_map[crawl_id] = visit_id
UpdateRecordsSetMap ==
    /\ lpc = "visit_done"
    /\ browser_map' = DictSet(browser_map, cur_rec.crawl_id, cur_rec.visit_id)
    /\ assigned' = Append(assigned, <<cur_rec.crawl_id, cur_rec.visit_id>>)
    /\ lpc' = "idle"
    /\ UNCHANGED <<status_queue, completion_queue, shutdown_queue, lstate,
                   last_update, sock_open, l_error, cur_rec, emitted,
                   shutdown_emitted, visit_done_calls, status_hist, shutdown_hist>>
    /\ UNCHANGED aggregatorVars
    /\ UNCHANGED timeVars
    /\ UNCHANGED probeVars
    /\ UNCHANGED drainVars

\* shutdown (lines 154-159): close the socket, then mark every mapped visit.
\* The loop body calls mark_visit_id_done(visit_id, is_shutdown=True); when the
\* call does not bind, Python raises TypeError on the first iteration and the
\* exception leaves shutdown with nothing put on completion_queue.
ListenerShutdown ==
    /\ lstate = "RUNNING"
    /\ lpc = "idle"
    /\ dpc \in {"idle", "done"}
    /\ sock_open' = FALSE
    /\ IF DictValues(browser_map) = <<>>
       THEN /\ lstate' = "TERMINATED"
            /\ UNCHANGED <<completion_queue, emitted, shutdown_emitted, l_error>>
       ELSE IF CallBinds(ShutdownCallArgs, MarkVisitIdDoneParams)
       THEN /\ completion_queue' = completion_queue \o DictValues(browser_map)
            /\ emitted' = emitted \o DictValues(browser_map)
            /\ shutdown_emitted' = shutdown_emitted \o DictValues(browser_map)
            /\ lstate' = "TERMINATED"
            /\ UNCHANGED l_error
       ELSE /\ l_error' = "TypeError"
            /\ lstate' = "CRASHED"
            /\ UNCHANGED <<completion_queue, emitted, shutdown_emitted>>
    /\ UNCHANGED <<status_queue, shutdown_queue, lpc, browser_map, last_update,
                   cur_rec, visit_done_calls, assigned, status_hist,
                   shutdown_hist>>
    /\ UNCHANGED aggregatorVars
    /\ UNCHANGED timeVars
    /\ UNCHANGED probeVars
    /\ UNCHANGED drainVars


\* ------------------------------------------- record_queue and drain_queue

\* table names of the records the socket delivers: an ordinary table and the
\* content table
Tables == {"site_visits", RECORD_TYPE_CONTENT}

\* line 95: record_queue is the queue of the socket; its threads put every
\* record they receive on it while the socket is open
Deliver(table) ==
    /\ lstate = "RUNNING"
    /\ sock_open
    /\ producing
    /\ Len(delivered) < MaxRecords
    /\ record_queue' = Append(record_queue, <<table, Len(delivered) + 1>>)
    /\ delivered' = Append(delivered, <<table, Len(delivered) + 1>>)
    /\ UNCHANGED <<producing, dpc, processed>>
    /\ UNCHANGED <<status_queue, completion_queue, shutdown_queue>>
    /\ UNCHANGED listenerVars
    /\ UNCHANGED aggregatorVars
    /\ UNCHANGED timeVars
    /\ UNCHANGED <<status_hist, shutdown_hist>>
    /\ UNCHANGED probeVars

\* the senders have sent their last record and all of them have landed
ProducerStops ==
    /\ lstate = "RUNNING"
    /\ producing
    /\ producing' = FALSE
    /\ UNCHANGED <<record_queue, dpc, processed, delivered>>
    /\ UNCHANGED <<status_queue, completion_queue, shutdown_queue>>
    /\ UNCHANGED listenerVars
    /\ UNCHANGED aggregatorVars
    /\ UNCHANGED timeVars
    /\ UNCHANGED <<status_hist, shutdown_hist>>
    /\ UNCHANGED probeVars

\* drain_queue, line 163: the call begins with time.sleep(3), during which
\* records still in flight land on record_queue
DrainQueue ==
    /\ lstate = "RUNNING"
    /\ lpc = "idle"
    /\ dpc = "idle"
    /\ dpc' = "sleep"
    /\ UNCHANGED <<record_queue, producing, processed, delivered>>
    /\ UNCHANGED <<status_queue, completion_queue, shutdown_queue>>
    /\ UNCHANGED listenerVars
    /\ UNCHANGED aggregatorVars
    /\ UNCHANGED timeVars
    /\ UNCHANGED <<status_hist, shutdown_hist>>
    /\ UNCHANGED probeVars

\* a drain_queue that takes the newest record
DrainTakeLast(q) == q[Len(q)]

\* line 165: record = self.record_queue.get()
DrainTake(q) == Head(q)

\* line 166: the handler drain_queue hands the record to, whatever its table
DrainHandler(record) == "process_record"

\* drain_queue, lines 164-166: one evaluation of the loop condition, followed
\* by one pass of the body or by the return
DrainQueueLoop ==
    /\ dpc \in {"sleep", "loop"}
    /\ IF record_queue # <<>>
       THEN /\ processed' = Append(processed, <<DrainHandler(DrainTake(record_queue)),
                                               DrainTake(record_queue)>>)
            /\ record_queue' = Tail(record_queue)
            /\ dpc' = "loop"
       ELSE /\ dpc' = "done"
            /\ UNCHANGED <<record_queue, processed>>
    /\ UNCHANGED <<producing, delivered>>
    /\ UNCHANGED <<status_queue, completion_queue, shutdown_queue>>
    /\ UNCHANGED listenerVars
    /\ UNCHANGED aggregatorVars
    /\ UNCHANGED timeVars
    /\ UNCHANGED <<status_hist, shutdown_hist>>
    /\ UNCHANGED probeVars


\* ========================================================== BaseAggregator

\* the outcome of an Aggregator call, as its caller sees it
\* (start, pubs0: the clock and the number of status puts when the call began)
Result(op, kind, value, start, pubs0) ==
    [op |-> op, kind |-> kind, value |-> value, start |-> start, pubs0 |-> pubs0]

\* a call that has begun and not returned yet
Pending(op) == Result(op, "pending", None, now, Len(status_hist))

\* launch (lines 251-260): the listener process is started; its runner
\* constructs the listener (BaseListener.__init__, line 52 reads the clock)
Launch ==
    /\ apc = "idle"
    /\ lstate = "NOPROC"
    /\ listener_process = None
    /\ listener_process' = Some("proc")
    /\ lstate' = "INIT"
    /\ last_update' = now
    /\ apc' = "launch_get"
    /\ a_result' = Pending("launch")
    /\ UNCHANGED <<status_queue, completion_queue, shutdown_queue, sock_open, l_error,
                   listener_address, last_status, last_status_received,
                   finished_visit_ids, deadline, shutdown_emitted, status_hist,
                   shutdown_hist, returned>>
    /\ UNCHANGED listenerVisitVars
    /\ UNCHANGED timeVars
    /\ UNCHANGED probeVars
    /\ UNCHANGED drainVars

\* a launch that reads the first value and leaves it on the queue
LaunchPeek(q) == q

\* launch, line 261: what status_queue.get() leaves on the queue
LaunchRest(q) == Tail(q)

\* launch, line 261: self.listener_address = self.status_queue.get(), which
\* blocks without a timeout until a value is there
LaunchGet ==
    /\ apc = "launch_get"
    /\ status_queue # <<>>
    /\ listener_address' = Head(status_queue)
    /\ status_queue' = LaunchRest(status_queue)
    /\ apc' = "idle"
    /\ a_result' = Result("launch", "ok", Head(status_queue),
                         a_result.start, a_result.pubs0)
    /\ UNCHANGED <<completion_queue, shutdown_queue, listener_process, last_status,
                   last_status_received, finished_visit_ids, deadline, returned,
                   shutdown_emitted, status_hist, shutdown_hist>>
    /\ UNCHANGED <<lstate, last_update, sock_open, l_error>>
    /\ UNCHANGED listenerVisitVars
    /\ UNCHANGED timeVars
    /\ UNCHANGED probeVars
    /\ UNCHANGED drainVars

\* get_saved_visit_ids, line 246: finished_visit_ids = list()
GetSavedVisitIds ==
    /\ apc = "idle"
    /\ finished_visit_ids' = <<>>
    /\ apc' = "saved_loop"
    /\ a_result' = Pending("get_saved_visit_ids")
    /\ UNCHANGED <<status_queue, completion_queue, shutdown_queue, listener_address,
                   listener_process, last_status, last_status_received, deadline,
                   returned,
                   shutdown_emitted, status_hist, shutdown_hist>>
    /\ UNCHANGED <<lstate, last_update, sock_open, l_error>>
    /\ UNCHANGED listenerVisitVars
    /\ UNCHANGED timeVars
    /\ UNCHANGED probeVars
    /\ UNCHANGED drainVars

\* a get_saved_visit_ids that inserts at the front of the list
FinishedPrepend(lst, q) == <<Head(q)>> \o lst

\* line 248: finished_visit_ids.append(self.completion_queue.get())
FinishedAppend(lst, q) == Append(lst, Head(q))

\* a get_saved_visit_ids that reads the head and leaves it on the queue
CompletionPeek(q) == q

\* line 248: what completion_queue.get() leaves on the queue
CompletionRest(q) == Tail(q)

\* get_saved_visit_ids, lines 247-249: one evaluation of the loop condition,
\* followed by one pass of the body or by the return
GetSavedVisitIdsLoop ==
    /\ apc = "saved_loop"
    /\ IF completion_queue # <<>>
       THEN /\ finished_visit_ids' = FinishedAppend(finished_visit_ids, completion_queue)
            /\ completion_queue' = CompletionRest(completion_queue)
            /\ UNCHANGED <<apc, returned, a_result>>
       ELSE /\ a_result' = Result("get_saved_visit_ids", "ok", finished_visit_ids,
                                  a_result.start, a_result.pubs0)
            /\ returned' = returned \o finished_visit_ids
            /\ finished_visit_ids' = <<>>
            /\ apc' = "idle"
            /\ UNCHANGED completion_queue
    /\ UNCHANGED <<status_queue, shutdown_queue, listener_address, listener_process,
                   last_status, last_status_received, deadline,
                   shutdown_emitted, status_hist, shutdown_hist>>
    /\ UNCHANGED <<lstate, last_update, sock_open, l_error>>
    /\ UNCHANGED listenerVisitVars
    /\ UNCHANGED timeVars
    /\ UNCHANGED probeVars
    /\ UNCHANGED drainVars

\* ------------------------------------------------ status and shutdown side

\* an update_status_queue without the early return of line 107
PublishAlways(t, lu) == TRUE

\* line 107: the early return is taken while less than the interval has passed
PublishDue(t, lu) == ~((t - lu) < STATUS_UPDATE_INTERVAL)

\* update_status_queue (lines 105-116): throttled put of record_queue.qsize().
\* The record queue is fed by the socket threads; its size is any value.
UpdateStatusQueue ==
    /\ lstate = "RUNNING"
    /\ lpc = "idle"
    /\ IF PublishDue(now, last_update)
       THEN /\ \E qsize \in 0..MaxQSize :
                  /\ status_queue' = Append(status_queue, Sample(qsize))
                  /\ status_hist' = Append(status_hist, Sample(qsize))
            /\ status_times' = Append(status_times, now)
            /\ last_update' = now
       ELSE UNCHANGED <<status_queue, status_hist, status_times, last_update>>
    /\ UNCHANGED <<completion_queue, shutdown_queue, lstate, sock_open, l_error,
                   shutdown_emitted, shutdown_hist>>
    /\ UNCHANGED listenerVisitVars
    /\ UNCHANGED aggregatorVars
    /\ UNCHANGED timeVars
    /\ UNCHANGED <<shutdown_seen, ss_ret>>
    /\ UNCHANGED drainVars

\* a should_shutdown that reads the signal and leaves it on the queue
ShutdownPeek(q) == q

\* line 100: what shutdown_queue.get() leaves on the queue
ShutdownRest(q) == Tail(q)

\* should_shutdown (lines 97-103): take the signal if one is there and return
\* True, return False otherwise.  The listener is the only reader of
\* shutdown_queue, so the get of line 100 finds the value empty() saw.
ShouldShutdown ==
    /\ lstate = "RUNNING"
    /\ lpc = "idle"
    /\ IF shutdown_queue # <<>>
       THEN /\ shutdown_queue' = ShutdownRest(shutdown_queue)
            /\ ss_ret' = Some(TRUE)
            /\ shutdown_seen' = shutdown_seen + 1
       ELSE /\ ss_ret' = Some(FALSE)
            /\ UNCHANGED <<shutdown_queue, shutdown_seen>>
    /\ UNCHANGED <<status_queue, completion_queue, lstate, last_update, sock_open, l_error,
                   shutdown_emitted, status_hist, shutdown_hist>>
    /\ UNCHANGED listenerVisitVars
    /\ UNCHANGED aggregatorVars
    /\ UNCHANGED timeVars
    /\ UNCHANGED status_times
    /\ UNCHANGED drainVars

\* the position of the manager thread while a status_queue.get(block=True,
\* timeout=STATUS_TIMEOUT) is pending, per public method that made the call
StatusWaits == {"get_status_wait", "get_most_recent_status_wait"}
WaitOf(op) == IF op = "get_status" THEN "get_status_wait" ELSE "get_most_recent_status_wait"
OpOf(pc) == IF pc = "get_status_wait" THEN "get_status" ELSE "get_most_recent_status"

\* get_status, lines 230-233, entered from the public method `op`: the value
\* at the head of status_queue is taken at once when there is one; otherwise
\* the thread blocks for at most STATUS_TIMEOUT
StatusCall(op) ==
    /\ apc = "idle"
    /\ IF status_queue # <<>>
       THEN /\ last_status' = Head(status_queue)
            /\ status_queue' = Tail(status_queue)
            /\ last_status_received' = Some(now)
            /\ a_result' = Result(op, "ok", Head(status_queue), now, Len(status_hist))
            /\ UNCHANGED <<apc, deadline>>
       ELSE /\ apc' = WaitOf(op)
            /\ deadline' = now + STATUS_TIMEOUT
            /\ a_result' = Pending(op)
            /\ UNCHANGED <<status_queue, last_status, last_status_received>>
    /\ UNCHANGED <<completion_queue, shutdown_queue, listener_address, listener_process,
                   finished_visit_ids, returned, shutdown_emitted, status_hist,
                   shutdown_hist>>
    /\ UNCHANGED <<lstate, last_update, sock_open, l_error>>
    /\ UNCHANGED listenerVisitVars
    /\ UNCHANGED timeVars
    /\ UNCHANGED probeVars
    /\ UNCHANGED drainVars

\* get_status (lines 228-239), the call
GetStatus == StatusCall("get_status")

\* get_status, lines 231-233 and 239: a value arrived while the thread waited
StatusGet ==
    /\ apc \in StatusWaits
    /\ status_queue # <<>>
    /\ last_status' = Head(status_queue)
    /\ status_queue' = Tail(status_queue)
    /\ last_status_received' = Some(now)
    /\ a_result' = Result(OpOf(apc), "ok", Head(status_queue),
                         a_result.start, a_result.pubs0)
    /\ apc' = "idle"
    /\ deadline' = 0
    /\ UNCHANGED <<completion_queue, shutdown_queue, listener_address, listener_process,
                   finished_visit_ids, returned,
                   shutdown_emitted, status_hist, shutdown_hist>>
    /\ UNCHANGED <<lstate, last_update, sock_open, l_error>>
    /\ UNCHANGED listenerVisitVars
    /\ UNCHANGED timeVars
    /\ UNCHANGED probeVars
    /\ UNCHANGED drainVars

\* lines 234-238: the handler of queue.Empty builds the message of the
\* RuntimeError from time.time() - self._last_status_received; while
\* _last_status_received is None that subtraction raises TypeError instead
TimeoutRaises(lsr) == IF lsr = None THEN "TypeError" ELSE "RuntimeError"

\* get_status, lines 234-238: the timeout passed with status_queue empty
StatusTimeout ==
    /\ apc \in StatusWaits
    /\ status_queue = <<>>
    /\ now = deadline
    /\ a_result' = Result(OpOf(apc), TimeoutRaises(last_status_received), None,
                          a_result.start, a_result.pubs0)
    /\ apc' = "idle"
    /\ deadline' = 0
    /\ UNCHANGED <<status_queue, completion_queue, shutdown_queue, listener_address,
                   listener_process, last_status, last_status_received,
                   finished_visit_ids, returned,
                   shutdown_emitted, status_hist, shutdown_hist>>
    /\ UNCHANGED <<lstate, last_update, sock_open, l_error>>
    /\ UNCHANGED listenerVisitVars
    /\ UNCHANGED timeVars
    /\ UNCHANGED probeVars
    /\ UNCHANGED drainVars

\* lines 215-217: the loop leaves the last value taken in _last_status
DrainLatest(q, ls) == IF q # <<>> THEN q[Len(q)] ELSE ls
\* line 217: and the time of the last get in _last_status_received
DrainTime(q, lsr) == IF q # <<>> THEN Some(now) ELSE lsr
\* a staleness check that already fails at exactly the timeout
IsStaleAtTimeout(t, lsr) == (t - lsr[1]) >= STATUS_TIMEOUT

\* line 220
IsStale(t, lsr) == (t - lsr[1]) > STATUS_TIMEOUT

\* get_most_recent_status (lines 207-226).  With _last_status None it is
\* get_status (line 212).  Otherwise the queue is drained (the loop takes no
\* time on the model's clock, so a value the listener puts while it runs is
\* either drained by it or left for the next call) and the age is checked.
GetMostRecentStatus ==
    IF last_status = None
    THEN StatusCall("get_most_recent_status")
    ELSE /\ apc = "idle"
         /\ last_status' = DrainLatest(status_queue, last_status)
         /\ last_status_received' = DrainTime(status_queue, last_status_received)
         /\ status_queue' = <<>>
         /\ a_result' =
               IF IsStale(now, last_status_received')
               THEN Result("get_most_recent_status", "RuntimeError", None,
                           now, Len(status_hist))
               ELSE Result("get_most_recent_status", "ok", last_status',
                           now, Len(status_hist))
         /\ UNCHANGED <<apc, deadline>>
         /\ UNCHANGED <<completion_queue, shutdown_queue, listener_address,
                        listener_process, finished_visit_ids, returned,
                        shutdown_emitted, status_hist, shutdown_hist>>
         /\ UNCHANGED <<lstate, last_update, sock_open, l_error>>
         /\ UNCHANGED listenerVisitVars
         /\ UNCHANGED timeVars
         /\ UNCHANGED probeVars
         /\ UNCHANGED drainVars

\* BaseAggregator.shutdown (lines 263-271): the signal is put, then the
\* process is joined; with listener_process None the join raises
\* AttributeError after the put
AggregatorShutdown ==
    /\ apc = "idle"
    /\ Len(shutdown_hist) < MaxShutdowns
    /\ shutdown_queue' = Append(shutdown_queue, SHUTDOWN_SIGNAL)
    /\ shutdown_hist' = Append(shutdown_hist, SHUTDOWN_SIGNAL)
    /\ IF listener_process = None
       THEN /\ a_result' = Result("shutdown", "AttributeError", None,
                                  now, Len(status_hist))
            /\ UNCHANGED <<apc, deadline>>
       ELSE /\ apc' = "join"
            /\ deadline' = now + JOIN_TIMEOUT
            /\ a_result' = Pending("shutdown")
    /\ UNCHANGED <<status_queue, completion_queue, listener_address, listener_process,
                   last_status, last_status_received, finished_visit_ids, returned,
                   shutdown_emitted, status_hist>>
    /\ UNCHANGED <<lstate, last_update, sock_open, l_error>>
    /\ UNCHANGED listenerVisitVars
    /\ UNCHANGED timeVars
    /\ UNCHANGED probeVars
    /\ UNCHANGED drainVars

\* the listener process has exited, normally or by an exception
ListenerExited == lstate \in {"TERMINATED", "CRASHED"}

\* a shutdown that keeps its handle after the join
Kept(handle) == handle

\* lines 278-279: the handle is set to None
Cleared(handle) == None

\* BaseAggregator.shutdown, lines 271-279: join(300) returns when the process
\* has exited or the 300 have passed; both handles are cleared
AggregatorShutdownJoin ==
    /\ apc = "join"
    /\ ListenerExited \/ now = deadline
    /\ listener_address' = Cleared(listener_address)
    /\ listener_process' = Cleared(listener_process)
    /\ a_result' = Result("shutdown", "ok", None, a_result.start, a_result.pubs0)
    /\ apc' = "idle"
    /\ deadline' = 0
    /\ UNCHANGED <<status_queue, completion_queue, shutdown_queue, last_status,
                   last_status_received, finished_visit_ids, returned,
                   shutdown_emitted, status_hist, shutdown_hist>>
    /\ UNCHANGED <<lstate, last_update, sock_open, l_error>>
    /\ UNCHANGED listenerVisitVars
    /\ UNCHANGED timeVars
    /\ UNCHANGED probeVars
    /\ UNCHANGED drainVars

\* ------------------------------------------------------------------- time
\* the amounts by which the clock advances in one step
TickSteps == {1, STATUS_UPDATE_INTERVAL - 1, STATUS_TIMEOUT, JOIN_TIMEOUT}

\* a blocked call returns as soon as it can: the clock does not pass the
\* deadline of a pending call, nor advance while what it waits for is there
Tick(d) ==
    /\ ticks < MaxTicks
    /\ apc \in StatusWaits \cup {"join"} => now + d <= deadline
    /\ apc \in StatusWaits \cup {"launch_get"} => status_queue = <<>>
    /\ apc = "join" => ~ListenerExited
    /\ now' = now + d
    /\ ticks' = ticks + 1
    /\ UNCHANGED <<status_queue, completion_queue, shutdown_queue>>
    /\ UNCHANGED listenerVars
    /\ UNCHANGED aggregatorVars
    /\ UNCHANGED <<status_hist, shutdown_hist>>
    /\ UNCHANGED probeVars
    /\ UNCHANGED drainVars

\* ---------------------------------------------------------- specifications

\* the visit-grouping side: records, completion signals, listener shutdown
NextVisit ==
    \/ Launch
    \/ Startup
    \/ LaunchGet
    \/ \E data \in Records : UpdateRecords(data)
    \/ UpdateRecordsVisitDone
    \/ UpdateRecordsSetMap
    \/ ListenerShutdown
    \/ GetSavedVisitIds
    \/ GetSavedVisitIdsLoop

SpecVisit == Init /\ [][NextVisit]_vars


\* the status and shutdown side: rendezvous, status samples, time-outs
NextStatus ==
    \/ Launch
    \/ Startup
    \/ LaunchGet
    \/ UpdateStatusQueue
    \/ ShouldShutdown
    \/ ListenerShutdown
    \/ GetStatus
    \/ GetMostRecentStatus
    \/ StatusGet
    \/ StatusTimeout
    \/ AggregatorShutdown
    \/ AggregatorShutdownJoin
    \/ \E d \in TickSteps : Tick(d)

SpecStatus == Init /\ [][NextStatus]_vars

\* the record queue side: deliveries by the socket, drain_queue, shutdown
NextDrain ==
    \/ Launch
    \/ Startup
    \/ LaunchGet
    \/ \E table \in Tables : Deliver(table)
    \/ ProducerStops
    \/ DrainQueue
    \/ DrainQueueLoop
    \/ ListenerShutdown

SpecDrain == Init /\ [][NextDrain]_vars

\* the listener thread keeps running: a drain_queue that was called sleeps,
\* wakes up and goes on with its loop
SpecDrainLive == SpecDrain /\ WF_vars(DrainQueueLoop)

\* ================================================================== claims

\* a record that lacks visit_id or crawl_id
Malformed(data) == ~("visit_id" \in DOMAIN data /\ "crawl_id" \in DOMAIN data)

\* the number of times a known crawl_id was given another visit_id
VisitChanges == Len(assigned) - Len(browser_map)

\* C1: whenever update_records replaces the visit_id mapped for a known
\* crawl_id, the completion signal for the previously mapped visit_id is
\* already on record as the latest put, it was put before this step (the step
\* that sets browser_map puts nothing), and the number of signals put so far
\* equals the number of visit changes so far: one signal per change.
C1_FinalizeBeforeRemap ==
    [][\A c \in Crawls :
          (/\ DictHas(browser_map, c)
           /\ DictHas(browser_map', c)
           /\ DictGet(browser_map', c) # DictGet(browser_map, c))
          => /\ emitted' = emitted
             /\ completion_queue' = completion_queue
             /\ emitted # <<>>
             /\ emitted[Len(emitted)] = DictGet(browser_map, c)
             /\ Len(emitted) = Len(assigned') - Len(browser_map')]_vars

\* C1 witness: both crawl_ids are mapped and two visit changes were finalized
C1_Witness ==
    /\ lpc = "idle"
    /\ Len(browser_map) = 2
    /\ VisitChanges >= 2
    /\ Len(emitted) >= 2
    /\ \E i, j \in 1..Len(assigned) :
          /\ i < j
          /\ assigned[i][1] # assigned[j][1]
          /\ \E k \in 1..(i - 1) : assigned[k][1] = assigned[i][1]
          /\ \E k \in 1..(j - 1) : assigned[k][1] = assigned[j][1]

\* C2: once BaseListener.shutdown has ended, every visit_id still mapped in
\* browser_map has exactly one completion signal put by the shutdown sequence.
C2_ShutdownFinalizesMapped ==
    lstate \in {"TERMINATED", "CRASHED"}
        => \A v \in Range(DictValues(browser_map)) : Count(v, shutdown_emitted) = 1

\* C3 as stated: no visit_id is put on the completion channel more than once.
C3_NoVisitEmittedTwice ==
    \A v \in Visits : Count(v, emitted) <= 1

\* every visit_id was written to browser_map at most once: each visit_id is
\* carried by one crawl_id only and no crawl_id returns to an earlier visit_id
NormalOperation ==
    \A i, j \in 1..Len(assigned) : i # j => assigned[i][2] # assigned[j][2]

\* C3 amended: as long as every visit_id is written to browser_map at most
\* once, no visit_id is put on the completion channel more than once.
C3_NoDuplicateInNormalOperation ==
    NormalOperation => \A v \in Visits : Count(v, emitted) <= 1

\* C3 witness: crawl 1 went from one visit to another, crawl 2 carried a
\* third, and the listener was shut down
C3_Witness ==
    /\ NormalOperation
    /\ Len(emitted) >= 1
    /\ Len(browser_map) = 2
    /\ lstate \in {"TERMINATED", "CRASHED"}

\* C4: every visit_id that was put on the completion channel has had its
\* visit_done hook run to completion: the i-th signal is never visible before
\* the i-th visit_done call has returned.
C4_CompletionAfterVisitDone ==
    \A i \in 1..Len(emitted) :
        /\ i <= Len(visit_done_calls)
        /\ visit_done_calls[i][1] = emitted[i]

C8_DrainReturnsPendingInOrder ==
    [][(apc = "saved_loop" /\ apc' = "idle")
          => /\ a_result'.value = SubSeq(emitted, Len(returned) + 1, Len(emitted))
             /\ completion_queue' = <<>>
             /\ returned' = emitted]_vars

\* C8 witness: earlier calls returned two or more visit_ids, and the latest
\* call, with nothing put since they were returned, returned the empty list
C8_Witness ==
    /\ apc = "idle"
    /\ a_result # None
    /\ a_result.op = "get_saved_visit_ids"
    /\ a_result.kind = "ok"
    /\ a_result.value = <<>>
    /\ Len(returned) >= 2
    /\ returned = emitted

\* C6: a get_status() whose status channel stays empty for the whole timeout
\* fails with the RuntimeError "listener unresponsive", exactly STATUS_TIMEOUT
\* after the call began, whether or not a status was ever received before,
\* and leaves _last_status and _last_status_received as they were.
C6_GetStatusTimeoutIsUnresponsive ==
    [][(apc = "get_status_wait" /\ apc' = "idle" /\ status_queue = <<>>)
          => /\ a_result'.kind = "RuntimeError"
             /\ a_result'.start = a_result.start
             /\ now = a_result.start + STATUS_TIMEOUT
             /\ UNCHANGED <<last_status, last_status_received>>]_vars

\* C7: a get_most_recent_status() that follows another one which returned a
\* value, within the publish interval of that call's start and with nothing
\* published on status since that start, returns at once (its outcome is
\* not "pending") and returns the same value.
C7_RepeatedMostRecentStatusAgrees ==
    [][(/\ apc = "idle"
        /\ a_result # None
        /\ a_result.op = "get_most_recent_status"
        /\ a_result.kind = "ok"
        /\ a_result' # a_result
        /\ a_result'.op = "get_most_recent_status"
        /\ now - a_result.start < STATUS_UPDATE_INTERVAL
        /\ Len(status_hist) = a_result.pubs0)
          => /\ a_result'.kind = "ok"
             /\ a_result'.value = a_result.value]_vars

\* launch has returned
Launched == lstate # "NOPROC" /\ apc # "launch_get"

\* C9: the history of the status channel is the listener's address followed
\* by integer samples only; launch blocks until it has taken that address,
\* stores it as listener_address and removes it from the channel; so whatever
\* get_status or get_most_recent_status returns or keeps is an integer sample.
C9_RendezvousByPosition ==
    /\ status_hist # <<>> => status_hist[1] = Addr
    /\ \A i \in 2..Len(status_hist) : IsInt(status_hist[i])
    /\ apc = "launch_get" => listener_address = None
    /\ listener_address # None => listener_address = Addr
    /\ (a_result # None /\ a_result.op = "launch" /\ a_result.kind = "ok")
          => (a_result.value = Addr /\ listener_address = Addr)
    /\ Launched => \A i \in 1..Len(status_queue) : IsInt(status_queue[i])
    /\ last_status # None => IsInt(last_status)
    /\ (/\ a_result # None
        /\ a_result.op \in {"get_status", "get_most_recent_status"}
        /\ a_result.kind = "ok")
          => IsInt(a_result.value)

\* C9 witness: after the rendezvous a status call returned a sample while the
\* address is stored
C9_Witness ==
    /\ listener_address = Addr
    /\ a_result # None
    /\ a_result.op \in {"get_status", "get_most_recent_status"}
    /\ a_result.kind = "ok"
    /\ Len(status_hist) >= 3

\* C10: at most one value is ever put on the shutdown channel, and it is the
\* sentinel.
C10_AtMostOneSentinel ==
    /\ Len(shutdown_hist) <= 1
    /\ \A i \in 1..Len(shutdown_hist) : shutdown_hist[i] = SHUTDOWN_SIGNAL

\* what the caller of BaseAggregator.shutdown has in hand once a shutdown
\* whose listener exited within the deadline has returned: the return value
\* None, no exception, and both handles None
NormalStopOutcome == <<"ok", None, None, None>>

\* C11: when the join of BaseAggregator.shutdown gives up at its deadline with
\* the listener process still alive, what the caller has in hand afterwards
\* (outcome and value of the call, listener_address, listener_process)
\* differs from what it has after a shutdown whose listener exited in time.
C11_HungListenerSurfaced ==
    [][(apc = "join" /\ apc' = "idle" /\ ~ListenerExited)
          => <<a_result'.kind, a_result'.value, listener_address', listener_process'>>
                 # NormalStopOutcome]_vars

\* a should_shutdown call has returned in this step
ShouldShutdownReturned == ss_ret' # ss_ret \/ shutdown_seen' # shutdown_seen

\* C12: should_shutdown returns within the step that calls it; it returns True
\* exactly when a sentinel is on the shutdown channel, and then takes that one
\* sentinel; on an empty channel it returns False and changes nothing; so the
\* calls that returned True are as many as the sentinels taken off the
\* channel, one per sentinel published and no longer queued.
C12_ShouldShutdownOncePerSentinel ==
    /\ [](shutdown_seen + Len(shutdown_queue) = Len(shutdown_hist))
    /\ [][ShouldShutdownReturned
             => /\ ss_ret' = Some(shutdown_queue # <<>>)
                /\ lstate' = "RUNNING"
                /\ lpc' = "idle"
                /\ IF shutdown_queue # <<>>
                   THEN /\ Head(shutdown_queue) = SHUTDOWN_SIGNAL
                        /\ shutdown_queue' = Tail(shutdown_queue)
                        /\ shutdown_seen' = shutdown_seen + 1
                   ELSE UNCHANGED <<shutdown_queue, shutdown_seen, status_queue,
                                    completion_queue, browser_map, last_update,
                                    sock_open, l_error, emitted, status_hist,
                                    shutdown_hist>>]_vars

\* C12 witness: two sentinels were published, two calls returned True, and a
\* later call on the empty channel returned False
C12_Witness ==
    /\ Len(shutdown_hist) = 2
    /\ shutdown_seen = 2
    /\ shutdown_queue = <<>>
    /\ ss_ret = Some(FALSE)

\* C13: a qsize sample is put on status only when at least
\* STATUS_UPDATE_INTERVAL has passed since _last_update, which is the time of
\* the previous put (of the construction of the listener before the first
\* put); while less has passed nothing is put and _last_update stays; so
\* consecutive samples are at least STATUS_UPDATE_INTERVAL apart.
C13_StatusThrottled ==
    /\ [](\A i \in 1..(Len(status_times) - 1) :
             status_times[i + 1] - status_times[i] >= STATUS_UPDATE_INTERVAL)
    /\ [](Len(status_times) + 1 = Len(status_hist) \/ status_hist = <<>>)
    /\ [][status_times' # status_times
             => /\ now - last_update >= STATUS_UPDATE_INTERVAL
                /\ Len(status_times') = Len(status_times) + 1
                /\ status_times'[Len(status_times')] = now
                /\ last_update' = now]_vars
    /\ [][(lstate = "RUNNING" /\ now - last_update < STATUS_UPDATE_INTERVAL)
             => UNCHANGED <<status_hist, status_times, last_update>>]_vars

\* C13 witness: two samples were put and the listener is running at a moment
\* when a further call is throttled
C13_Witness ==
    /\ Len(status_times) >= 2
    /\ lstate = "RUNNING"
    /\ now - last_update < STATUS_UPDATE_INTERVAL

C15_ShutdownFinalizesWithoutError ==
    (lstate \in {"TERMINATED", "CRASHED"} /\ browser_map # <<>>)
        => /\ ~sock_open
           /\ lstate = "TERMINATED"
           /\ l_error = ""
           /\ \A v \in Range(DictValues(browser_map)) :
                 /\ v \in Range(shutdown_emitted)
                 /\ <<v, TRUE>> \in Range(visit_done_calls)

\* C16: every record of table RECORD_TYPE_CONTENT that the listener took from
\* record_queue was handed to process_content, none to process_record.
C16_ContentGoesToProcessContent ==
    \A i \in 1..Len(processed) :
        processed[i][2][1] = RECORD_TYPE_CONTENT => processed[i][1] = "process_content"

\* the records handed to a handler so far, in the order of the calls
ProcessedRecords == [i \in 1..Len(processed) |-> processed[i][2]]

\* C17: the records handed to a handler, followed by those still queued, are
\* always the records delivered, in delivery order (each processed once, in
\* FIFO order, none lost); when drain_queue returns, record_queue is empty
\* and every record delivered up to that final check was processed, so only
\* later arrivals stay unprocessed; and once the producers have stopped, a
\* drain_queue that was called returns, with record_queue empty.
C17_DrainProcessesAllInOrder ==
    /\ [](ProcessedRecords \o record_queue = delivered)
    /\ [][(dpc # "done" /\ dpc' = "done")
             => /\ record_queue = <<>>
                /\ record_queue' = <<>>
                /\ ProcessedRecords' = delivered]_vars
    /\ [][dpc = "done" => processed' = processed]_vars
    /\ ((dpc = "sleep" /\ ~producing) ~> (dpc = "done" /\ record_queue = <<>>))
    /\ ((dpc = "loop" /\ ~producing) ~> (dpc = "done" /\ record_queue = <<>>))

\* C17 witness: the producers stopped, drain_queue ran its loop over records
\* of both tables and returned on the empty queue
C17_Witness ==
    /\ dpc = "done"
    /\ ~producing
    /\ record_queue = <<>>
    /\ Len(processed) >= 2
    /\ {processed[i][2][1] : i \in 1..Len(processed)} = Tables

\* C18: a shutdown that reached its join is never kept waiting beyond
\* JOIN_TIMEOUT after it began, the join can return as soon as the listener
\* has exited or the deadline is there, and when it returns, without an
\* exception, listener_address and listener_process are None whether the
\* listener exited or not; no step of shutdown touches the status or the
\* completion channel.
C18_ShutdownReturnsAndClears ==
    /\ [](apc = "join" => /\ deadline = a_result.start + JOIN_TIMEOUT
                          /\ now <= deadline)
    /\ []((apc = "join" /\ (ListenerExited \/ now = deadline))
             => ENABLED AggregatorShutdownJoin)
    /\ [][(apc = "join" /\ apc' = "idle")
             => /\ a_result'.op = "shutdown"
                /\ a_result'.kind = "ok"
                /\ now - a_result.start <= JOIN_TIMEOUT
                /\ listener_address' = None
                /\ listener_process' = None]_vars
    /\ [][(a_result' # a_result /\ a_result'.op = "shutdown")
             => UNCHANGED <<status_queue, completion_queue>>]_vars

\* C18 witness: the listener never terminated, the join gave up at its
\* deadline, shutdown returned with both handles None and a sample still on
\* the status channel
C18_Witness ==
    /\ apc = "idle"
    /\ a_result # None
    /\ a_result.op = "shutdown"
    /\ a_result.kind = "ok"
    /\ now - a_result.start = JOIN_TIMEOUT
    /\ lstate = "RUNNING"
    /\ listener_address = None
    /\ listener_process = None
    /\ status_queue # <<>>

\* the visit changes update_records has observed so far (line 141 found the
\* mapped visit_id different), the one being handled included
ObservedChanges == VisitChanges + (IF lpc = "idle" THEN 0 ELSE 1)

\* C19: an update_records call with a well-formed record whose crawl_id is not
\* mapped yet, or is mapped to the record's own visit_id, puts nothing on the
\* completion channel, calls no visit_done, returns at once, and leaves
\* browser_map as it was except for adding the new crawl_id; and while the
\* listener has not been shut down the completion signals put are as many as
\* the visit changes observed.
C19_NoSpuriousFinalization ==
    /\ [](lstate \in {"NOPROC", "INIT", "RUNNING"} => Len(emitted) = ObservedChanges)
    /\ [][(/\ lstate = "RUNNING"
           /\ lpc = "idle"
           /\ cur_rec' # cur_rec
           /\ ~Malformed(cur_rec')
           /\ \/ ~DictHas(browser_map, cur_rec'.crawl_id)
              \/ DictGet(browser_map, cur_rec'.crawl_id) = cur_rec'.visit_id)
             => /\ UNCHANGED <<completion_queue, emitted, visit_done_calls>>
                /\ lpc' = "idle"
                /\ l_error' = ""
                /\ browser_map' =
                      IF DictHas(browser_map, cur_rec'.crawl_id) THEN browser_map
                      ELSE Append(browser_map, <<cur_rec'.crawl_id, cur_rec'.visit_id>>)]_vars

\* C19 witness: after a visit change was finalized and both crawl_ids were
\* mapped, a record arrived that carries the visit_id already mapped for its
\* crawl_id, and nothing was put for it
C19_Witness ==
    /\ lstate = "RUNNING"
    /\ lpc = "idle"
    /\ cur_rec # <<>>
    /\ ~Malformed(cur_rec)
    /\ Len(browser_map) = 2
    /\ DictGet(browser_map, cur_rec.crawl_id) = cur_rec.visit_id
    /\ assigned[Len(assigned)] # <<cur_rec.crawl_id, cur_rec.visit_id>>
    /\ Len(emitted) >= 1
    /\ Len(emitted) = VisitChanges

\* C20: at every moment, under any interleaving of the listener's puts with
\* get_saved_visit_ids calls, the visit_ids returned so far, then those the
\* running call has collected, then those still on the completion channel,
\* are exactly the visit_ids emitted, in order: what was returned is a prefix
\* of what was emitted, nothing is lost, duplicated or reordered; and a call
\* in its loop can always take its next step.
C20_DrainedIsPrefixOfEmitted ==
    /\ [](returned \o finished_visit_ids \o completion_queue = emitted)
    /\ [](apc # "saved_loop" => finished_visit_ids = <<>>)
    /\ [](apc = "saved_loop" => ENABLED GetSavedVisitIdsLoop)

\* C20 witness: while a call had collected one visit_id and not returned yet,
\* the listener put another one, and an earlier call had already returned
\* nothing or something
C20_Witness ==
    /\ apc = "saved_loop"
    /\ Len(finished_visit_ids) = 1
    /\ Len(completion_queue) = 1
    /\ lpc = "marked"
    /\ Len(emitted) = 2

====
